---- MODULE Spec2Model ----
(***************************************************************************)
(* A model of setup.py, the build descriptor of the CyCAD distribution.    *)
(*                                                                         *)
(* The script is one statement after its import: a call of setup() whose   *)
(* keyword arguments are evaluated left to right and then handed over.     *)
(* One argument, packages, is computed: find_packages(where="src") walks   *)
(* the project directory.  The state is therefore the project tree (the    *)
(* script's only input), the position of the interpreter in the script,    *)
(* the keyword arguments evaluated so far, and what setup() received.      *)
(* The packaging tool runs the script more than once (metadata, build), so *)
(* the model lets the script run again on a tree that may have changed.    *)
(***************************************************************************)
EXTENDS Naturals, Sequences, FiniteSets, TLC

VARIABLES
    tree,     \* the project directory: [dirs, inits], paths relative to it
    pc,       \* position of the interpreter in setup.py
    kwargs,   \* keyword arguments of the setup() call evaluated so far
    where,    \* the where-arguments find_packages was given in this run
    calls,    \* number of times setup() was invoked in this run
    passed,   \* the records setup() received in this run
    exc,      \* the exception propagating out of the script, or "none"
    earlier   \* a record setup() received in an earlier run, if any

vars == <<tree, pc, kwargs, where, calls, passed, exc, earlier>>

----------------------------------------------------------------------------
(* Bounds of the model.                                                    *)

\* largest number of directories in the project tree
MaxDirs == 3

\* the names of the directories of the project directory, and of those below
TopNames == {"src", "cycad", "tests"}
SubNames == {"cycad", "tests"}

Parent(p) == SubSeq(p, 1, Len(p) - 1)

\* the directories that can be made in the set of directories ds: a new
\* child of the project directory or of a directory of ds
Makeable(ds) ==
    ({<<n>> : n \in TopNames} \cup {Append(d, n) : d \in ds, n \in SubNames}) \ ds

\* the directories of ds that hold no directory
Leaves(ds) == {p \in ds : \A q \in ds : Len(q) = 0 \/ Parent(q) # p}

RECURSIVE DirSets(_)
\* the sets of at most n directories, each with its parent
DirSets(n) ==
    IF n = 0 THEN {{}}
    ELSE LET smaller == DirSets(n - 1)
         IN  smaller \cup UNION {{ds \cup {p} : p \in Makeable(ds)} : ds \in smaller}

\* a project tree: its directories, and those that hold an __init__.py
Trees == UNION {[dirs : {ds}, inits : SUBSET ds] : ds \in DirSets(MaxDirs)}

\* the trees one change away from t: an __init__.py written or deleted, a
\* directory made, an empty directory removed
Edits(t) ==
    {[t EXCEPT !.inits = @ \cup {p}] : p \in t.dirs}
    \cup {[t EXCEPT !.inits = @ \ {p}] : p \in t.dirs}
    \cup {[t EXCEPT !.dirs = @ \cup {p}] :
             p \in IF Cardinality(t.dirs) < MaxDirs THEN Makeable(t.dirs) ELSE {}}
    \cup {[dirs |-> t.dirs \ {p}, inits |-> t.inits \ {p}] : p \in Leaves(t.dirs)}

----------------------------------------------------------------------------
(* Requirement strings are sequences of characters, so that what an entry  *)
(* carries besides a name can be inspected.                                *)

pytest     == <<"p", "y", "t", "e", "s", "t">>
flake8     == <<"f", "l", "a", "k", "e", "8">>
black      == <<"b", "l", "a", "c", "k">>
isort      == <<"i", "s", "o", "r", "t">>
mypy       == <<"m", "y", "p", "y">>
pre_commit == <<"p", "r", "e", "-", "c", "o", "m", "m", "i", "t">>

----------------------------------------------------------------------------
(* The literals of the setup() call.  Beside a literal stand the values a  *)
(* slip in the descriptor would give it (a lower-cased name, a normalised  *)
(* version, the default discovery root, a second package root, a runtime   *)
(* dependency, a repeated or a pinned tool); the properties below are      *)
(* checked to tell each of them from the descriptor as written.            *)

NameArg_lower == "cycad"
NameArg == "CyCAD"

VersionArg_short == "0.1"
VersionArg_fromTree == IF <<"src">> \in tree.dirs THEN "0.1.0" ELSE "0.0.0"
VersionArg == "0.1.0"

WhereArg_default == "."
WhereArg == "src"

PackageDirArg_extra == ("" :> "src") @@ ("tests" :> "tests")
PackageDirArg == ("" :> "src")

InstallRequiresArg_runtime == <<pytest>>
InstallRequiresArg == << >>

DevExtras_dup == <<pytest, flake8, black, isort, mypy, mypy>>
DevExtras_pinned == <<pytest, flake8, black, isort, mypy,
                      pre_commit \o <<">", "=", "3">> >>
DevExtras == <<pytest, flake8, black, isort, mypy, pre_commit>>

ExtrasRequireArg == ("dev" :> DevExtras)

----------------------------------------------------------------------------
(* find_packages(where): the walk setuptools makes below `where`.  A       *)
(* directory is yielded, and descended into, only if it holds an           *)
(* __init__.py; a directory that is no package hides everything below it.  *)
(* A `where` that does not exist has no children, and the walk is empty.   *)
(* A package name is the sequence of its dotted components.  The list's    *)
(* order is the order the directories are enumerated in; it is kept as a   *)
(* set here.                                                               *)

\* convert_path: "." is the project directory, a name without "/" a child
ConvertPath(w) == IF w = "." THEN << >> ELSE <<w>>

Children(t, dir) == {p \in t.dirs : Len(p) = Len(dir) + 1 /\ Parent(p) = dir}

RECURSIVE Walk(_, _, _)
Walk(t, root, rel) ==
    UNION {IF full \in t.inits
             THEN {SubSeq(full, Len(root) + 1, Len(full))}
                  \cup Walk(t, root, SubSeq(full, Len(root) + 1, Len(full)))
             ELSE {} : full \in Children(t, root \o rel)}

find_packages(t, w) == Walk(t, ConvertPath(w), << >>)

----------------------------------------------------------------------------
Init ==
    /\ tree \in Trees
    /\ pc = "start"
    /\ kwargs = << >>
    /\ where = {}
    /\ calls = 0
    /\ passed = {}
    /\ exc = "none"
    /\ earlier = {}

\* line 1: from setuptools import setup, find_packages
Import ==
    /\ pc = "start"
    /\ pc' = "name"
    /\ UNCHANGED <<tree, kwargs, where, calls, passed, exc, earlier>>

\* line 1, setuptools not importable: the ImportError leaves the script
ImportFails ==
    /\ pc = "start"
    /\ pc' = "raised"
    /\ exc' = "ImportError"
    /\ UNCHANGED <<tree, kwargs, where, calls, passed, earlier>>

EvalName ==
    /\ pc = "name"
    /\ kwargs' = kwargs @@ ("name" :> NameArg)
    /\ pc' = "version"
    /\ UNCHANGED <<tree, where, calls, passed, exc, earlier>>

EvalVersion ==
    /\ pc = "version"
    /\ kwargs' = kwargs @@ ("version" :> VersionArg)
    /\ pc' = "packages"
    /\ UNCHANGED <<tree, where, calls, passed, exc, earlier>>

\* line 6, find_packages returns
EvalPackages ==
    /\ pc = "packages"
    /\ where' = where \cup {WhereArg}
    /\ kwargs' = kwargs @@ ("packages" :> find_packages(tree, WhereArg))
    /\ pc' = "package_dir"
    /\ UNCHANGED <<tree, calls, passed, exc, earlier>>

\* what a script that swallowed the failure and went on would do
EvalPackagesRaises_caught ==
    /\ pc = "packages"
    /\ where' = where \cup {WhereArg}
    /\ kwargs' = kwargs @@ ("packages" :> {})
    /\ pc' = "package_dir"
    /\ exc' = "DiscoveryError"
    /\ UNCHANGED <<tree, calls, passed, earlier>>

\* line 6, find_packages raises: nothing in the script catches it, the
\* remaining arguments are not evaluated and setup() is not entered
EvalPackagesRaises ==
    /\ pc = "packages"
    /\ where' = where \cup {WhereArg}
    /\ pc' = "raised"
    /\ exc' = "DiscoveryError"
    /\ UNCHANGED <<tree, kwargs, calls, passed, earlier>>

EvalPackageDir ==
    /\ pc = "package_dir"
    /\ kwargs' = kwargs @@ ("package_dir" :> PackageDirArg)
    /\ pc' = "install_requires"
    /\ UNCHANGED <<tree, where, calls, passed, exc, earlier>>

EvalInstallRequires ==
    /\ pc = "install_requires"
    /\ kwargs' = kwargs @@ ("install_requires" :> InstallRequiresArg)
    /\ pc' = "extras_require"
    /\ UNCHANGED <<tree, where, calls, passed, exc, earlier>>

EvalExtrasRequire ==
    /\ pc = "extras_require"
    /\ kwargs' = kwargs @@ ("extras_require" :> ExtrasRequireArg)
    /\ pc' = "call"
    /\ UNCHANGED <<tree, where, calls, passed, exc, earlier>>

\* lines 3-19: with every argument evaluated, setup() is entered
CallSetup ==
    /\ pc = "call"
    /\ calls' = calls + 1
    /\ passed' = passed \cup {kwargs}
    /\ pc' = "done"
    /\ UNCHANGED <<tree, kwargs, where, exc, earlier>>

\* the packaging tool runs the script again (egg_info, then a build), on a
\* tree that is as it was or one change away; nothing of the earlier run is
\* left in the interpreter
Rerun ==
    /\ pc \in {"done", "raised"}
    /\ tree' \in Edits(tree)
    /\ earlier' \in {earlier} \cup (IF passed = {} THEN {} ELSE {passed})
    /\ pc' = "start"
    /\ kwargs' = << >>
    /\ where' = {}
    /\ calls' = 0
    /\ passed' = {}
    /\ exc' = "none"

Next ==
    \/ Import
    \/ ImportFails
    \/ EvalName
    \/ EvalVersion
    \/ EvalPackages
    \/ EvalPackagesRaises
    \/ EvalPackageDir
    \/ EvalInstallRequires
    \/ EvalExtrasRequire
    \/ CallSetup
    \/ Rerun

Spec == Init /\ [][Next]_vars

TypeOK ==
    /\ tree.inits \subseteq tree.dirs
    /\ \A p \in tree.dirs : Len(p) = 1 \/ Parent(p) \in tree.dirs
    /\ Cardinality(tree.dirs) <= MaxDirs
    /\ calls \in 0..1

----------------------------------------------------------------------------
(* What the records handed to setup() look like.                           *)

Range(f) == {f[i] : i \in DOMAIN f}

Letters == {"a", "b", "c", "d", "e", "f", "g", "h", "i", "j", "k", "l", "m",
            "n", "o", "p", "q", "r", "s", "t", "u", "v", "w", "x", "y", "z"}
Digits  == {"0", "1", "2", "3", "4", "5", "6", "7", "8", "9"}

\* a requirement that is a distribution name and nothing after it: letters,
\* digits and inner "-", "_", "."; no comparison, bracket, ";", "@" or blank
IsBareName(s) ==
    /\ Len(s) > 0
    /\ Range(s) \subseteq Letters \cup Digits \cup {"-", "_", "."}
    /\ s[1] \in Letters \cup Digits
    /\ s[Len(s)] \in Letters \cup Digits

\* C1: the "dev" group handed to setup() is a list of exactly six entries,
\* no two of them equal, in the order pytest, flake8, black, isort, mypy,
\* pre-commit.
DevGroupIsTheSixTools ==
    \A r \in passed :
        LET dev == r.extras_require["dev"]
        IN  /\ Len(dev) = 6
            /\ \A i, j \in 1..Len(dev) : i # j => dev[i] # dev[j]
            /\ dev = << <<"p", "y", "t", "e", "s", "t">>,
                        <<"f", "l", "a", "k", "e", "8">>,
                        <<"b", "l", "a", "c", "k">>,
                        <<"i", "s", "o", "r", "t">>,
                        <<"m", "y", "p", "y">>,
                        <<"p", "r", "e", "-", "c", "o", "m", "m", "i", "t">> >>

DevGroupPassed ==
    \E r \in passed : Len(r.extras_require["dev"]) = 6

\* C2: install_requires handed to setup() is empty, and no tool of the
\* "dev" group is among the required dependencies.
NoRequiredDependency ==
    \A r \in passed :
        /\ r.install_requires = << >>
        /\ Range(r.extras_require["dev"]) \cap Range(r.install_requires) = {}

NoRequiredDependencyPassed ==
    \E r \in passed :
        Len(r.install_requires) = 0 /\ Range(r.extras_require["dev"]) # {}

\* C3: package_dir handed to setup() maps the empty prefix to "src" and
\* maps nothing else.
PackageDirIsSrcOnly ==
    \A r \in passed :
        /\ DOMAIN r.package_dir = {""}
        /\ r.package_dir[""] = "src"

PackageDirPassed ==
    \E r \in passed : "" \in DOMAIN r.package_dir

\* C4: the name handed to setup() is "CyCAD".
NameIsCyCAD ==
    \A r \in passed : r.name = "CyCAD"

NamePassed ==
    \E r \in passed : "name" \in DOMAIN r

\* C5: the version is the string "0.1.0" from the moment the argument is
\* evaluated, and it is that string, unchanged, that setup() receives.
VersionIsLiteral ==
    /\ "version" \in DOMAIN kwargs => kwargs.version = "0.1.0"
    /\ \A r \in passed : r.version = "0.1.0"

VersionPassed ==
    \E r \in passed : r.version = kwargs.version

\* C6: the packages handed to setup() are the ones discovery finds below
\* "src" in the tree as it is (a directory is a package when it and every
\* directory between it and "src" holds an __init__.py); discovery was given
\* the directory package_dir maps the empty prefix to; and every package
\* handed over is a directory below that root.
PackagesDiscoveredUnderRoot ==
    \A r \in passed :
        LET root  == r.package_dir[""]
            below == {SubSeq(p, 2, Len(p)) :
                         p \in {q \in tree.dirs : Len(q) > 1 /\ q[1] = "src"}}
        IN  /\ where = {root}
            /\ where = {"src"}
            /\ r.packages =
                  {p \in below :
                      \A k \in 1..Len(p) : <<"src">> \o SubSeq(p, 1, k) \in tree.inits}
            /\ \A p \in r.packages : <<root>> \o p \in tree.dirs

\* a package and a package nested in it are handed over
NestedPackagePassed ==
    \E r \in passed :
        \E p \in r.packages : Len(p) = 2 /\ <<p[1]>> \in r.packages

\* C7: extras_require handed to setup() has the one group "dev", and every
\* entry of the group is a bare name: nothing follows the tool's name.
DevEntriesAreBareNames ==
    \A r \in passed :
        /\ DOMAIN r.extras_require = {"dev"}
        /\ \A i \in DOMAIN r.extras_require["dev"] :
              IsBareName(r.extras_require["dev"][i])

\* an entry with a character that is no letter is handed over
HyphenatedEntryPassed ==
    \E r \in passed :
        \E i \in DOMAIN r.extras_require["dev"] :
            "-" \in Range(r.extras_require["dev"][i])

\* C8: the records two runs hand to setup() have the same keywords and
\* agree on name, version, package_dir, install_requires and extras_require,
\* whatever the tree was in either run; and a run invokes setup() at most
\* once, exactly once when it reaches the end of the script.
RunsAgreeOnLiterals ==
    /\ \A r1 \in earlier, r2 \in passed :
          /\ DOMAIN r1 = DOMAIN r2
          /\ r1.name = r2.name
          /\ r1.version = r2.version
          /\ r1.package_dir = r2.package_dir
          /\ r1.install_requires = r2.install_requires
          /\ r1.extras_require = r2.extras_require
    /\ calls <= 1
    /\ Cardinality(passed) = calls
    /\ pc = "done" => calls = 1

\* C8 as stated: the records agree, and every run of the script, however it
\* ends, has invoked setup() exactly once.
SetupCalledOnceInEveryRun ==
    /\ \A r1 \in earlier, r2 \in passed :
          /\ r1.name = r2.name
          /\ r1.version = r2.version
          /\ r1.package_dir = r2.package_dir
          /\ r1.install_requires = r2.install_requires
          /\ r1.extras_require = r2.extras_require
    /\ pc \in {"done", "raised"} => calls = 1

\* two runs handed over different package lists
RunsDifferInPackages ==
    \E r1 \in earlier, r2 \in passed : r1.packages # r2.packages

\* C9: an exception of find_packages leaves the script as it is: the script
\* does not go on, and setup() is not invoked in that run, with any package
\* list.
DiscoveryFailurePropagates ==
    exc = "DiscoveryError" =>
        /\ pc = "raised"
        /\ calls = 0
        /\ passed = {}
        /\ "packages" \notin DOMAIN kwargs

\* discovery has failed after the arguments before it were evaluated
DiscoveryFailed ==
    /\ exc = "DiscoveryError"
    /\ pc = "raised"
    /\ "version" \in DOMAIN kwargs

====
